---------------------------- MODULE Spec2Model ----------------------------
(***************************************************************************)
(* A model of the capstone pipeline (src/main-pipeline.py, with the SQL    *)
(* statement lists of src/sql_queries.py and the provisioner of            *)
(* src/launch_redshift_cluster.py).                                        *)
(*                                                                         *)
(* Data frames are bags (multisets) of records.  A nullable column is a    *)
(* set of at most one value: {} is null, {v} is the value v.  A string     *)
(* that the code inspects character by character (address lines, the       *)
(* price symbol, postcodes) is a sequence of one-character strings.        *)
(***************************************************************************)
EXTENDS Integers, Sequences, FiniteSets, Bags, TLC

VARIABLES
  pc,              \* position of main(): the next step to run, "done" or "aborted"
  fatal,           \* the uncaught exception that ended the run, or "none"
  tz,              \* session time-zone offset in hours (from_unixtime / hour)
  category,        \* config PARAMS.CATEGORY, the substring of staging_table_filter
  raw_places,      \* bag of place records in {bucket}/places.json
  raw_reviews,     \* bag of review records in {bucket}/reviews.json
  fixed,           \* names written under {bucket}/fixed/
  prepped_places,  \* {bucket}/prepped/places : null or a bag
  prepped_reviews, \* {bucket}/prepped/reviews: null or a bag
  reviews_df,      \* create_data_lake: reviews after the categories filter
  lake,            \* create_data_lake: the local data frame `lake`
  counts,          \* create_data_lake: the counts it has taken so far
  reviews_lake,    \* {bucket}/reviews_lake: null or a bag
  temp_lake,       \* {bucket}/temp_lake   : null or a bag
  cluster,         \* the Redshift cluster: "absent", "creating" or "available"
  conn,            \* the psycopg2 session: "closed", "open" or "failed"
  ip,              \* index of the next call or statement of the running function
  wh,              \* warehouse tables: table name -> null or a bag of rows
  log,             \* SQL statements handed to cur.execute, in order
  report,          \* tables check_data_quality has reported as filled
  aws,             \* the IAM role, its S3 policy and the ingress rule: which exist
  calls,           \* provisioning calls this run has made, in order, with outcome
  earlier          \* how the earlier runs against the same bucket ended

vars == << pc, fatal, tz, category, raw_places, raw_reviews, fixed,
           prepped_places, prepped_reviews, reviews_df, lake, counts,
           reviews_lake, temp_lake, cluster, conn, ip, wh, log, report, aws,
           calls, earlier >>

-----------------------------------------------------------------------------
(* Nullable values *)

Null == {}

Some(v) == {v}

IsNull(o) == o = {}

The(o) == CHOOSE v \in o : TRUE

-----------------------------------------------------------------------------
(* Bags *)

RECURSIVE SumOver(_, _)
SumOver(B, S) ==
  IF S = {} THEN 0
  ELSE LET x == CHOOSE y \in S : TRUE IN B[x] + SumOver(B, S \ {x})

\* df.select / withColumn: every row r becomes f[r]; equal results add up
BagImage(f, B) ==
  LET img == { f[x] : x \in DOMAIN B }
  IN  [ y \in img |-> SumOver(B, { x \in DOMAIN B : f[x] = y }) ]

\* df.filter: the rows in keep, with all their copies
BagFilter(keep, B) == [ x \in keep \cap DOMAIN B |-> B[x] ]

\* df.count()
Count(B) == SumOver(B, DOMAIN B)

-----------------------------------------------------------------------------
(* Character strings *)

Upper == {"C", "A", "T", "X"}

Digit == {"9", "0", "7"}

\* Python's \s: the space and the other white-space characters
Space == {" ", "\t"}

\* s[i..j]
Sub(s, i, j) == SubSeq(s, i, j)

\* whether sep occurs in s at position i
OccursAt(s, sep, i) ==
  /\ i + Len(sep) - 1 <= Len(s)
  /\ Sub(s, i, i + Len(sep) - 1) = sep

\* str.split(sep) of Python, and split(col, sep) of Spark for a literal sep:
\* the pieces of s between the successive occurrences of sep, left to right
RECURSIVE SplitFrom(_, _, _, _)
SplitFrom(s, sep, start, i) ==
  IF i > Len(s) THEN << Sub(s, start, Len(s)) >>
  ELSE IF OccursAt(s, sep, i)
       THEN << Sub(s, start, i - 1) >> \o SplitFrom(s, sep, i + Len(sep), i + Len(sep))
       ELSE SplitFrom(s, sep, start, i + 1)

Split(s, sep) == SplitFrom(s, sep, 1, 1)

\* array.getItem(i) of Spark, 0-based: null beyond the end
GetItem(arr, i) == IF i + 1 <= Len(arr) THEN Some(arr[i + 1]) ELSE Null

\* concat_ws(sep, array)
RECURSIVE ConcatWs(_, _)
ConcatWs(sep, arr) ==
  IF arr = << >> THEN << >>
  ELSE IF Len(arr) = 1 THEN arr[1]
  ELSE arr[1] \o sep \o ConcatWs(sep, Tail(arr))

-----------------------------------------------------------------------------
(* Places Enricher: process_places *)

\* re.search("^[A-Z]{2}\s\d{5}", seg): the match object's group(), or null
ReSearch(seg) ==
  IF /\ Len(seg) >= 8
     /\ seg[1] \in Upper /\ seg[2] \in Upper
     /\ seg[3] \in Space
     /\ \A i \in 4..8 : seg[i] \in Digit
  THEN Some(Sub(seg, 1, 8))
  ELSE Null

\* address[-1] raises on None (TypeError) and on an empty list (IndexError)
ExtractUsaRaises(address) == IsNull(address) \/ The(address) = << >>

\* extract_usa(address), for an address it does not raise on
extract_usa(address) ==
  LET last  == The(address)[Len(The(address))]
      parts == Split(last, << ",", " " >>)
  IN  ReSearch(parts[Len(parts)])

\* F.split(state_and_zip_usa, ' ').getItem(i); null when the column is null
StateZipItem(state_and_zip_usa, i) ==
  IF IsNull(state_and_zip_usa) THEN Null
  ELSE GetItem(Split(The(state_and_zip_usa), << " " >>), i)

\* F.when(state.isNull(), None).otherwise("USA")
Country(state) == IF IsNull(state) THEN Null ELSE Some("USA")

\* F.length(price)
PriceTier(price) == IF IsNull(price) THEN Null ELSE Some(Len(The(price)))

\* us_population_by_zipcode.csv: rows of (Zip Code ZCTA, 2010 Census Population)
PopCsv ==
  SetToBag({ [zip |-> << "9", "0", "0", "0", "0" >>, pop |-> 100],
             [zip |-> << "9", "0", "0", "0", "0" >>, pop |-> 50],
             [zip |-> << "7", "0", "0", "0", "0" >>, pop |-> 30] })

\* pop_df.groupby("Zip Code ZCTA").agg(sum): zip -> summed population
pop_df ==
  [ z \in { r.zip : r \in DOMAIN PopCsv } |->
      SumOver([ r \in DOMAIN PopCsv |-> PopCsv[r] * r.pop ],
              { r \in DOMAIN PopCsv : r.zip = z }) ]

\* the left join of one place with pop_df on postcode
Population(postcode) ==
  IF ~IsNull(postcode) /\ The(postcode) \in DOMAIN pop_df
  THEN Some(pop_df[The(postcode)])
  ELSE Null

\* one row of places_df as process_places writes it
PreppedPlace(p) ==
  LET state_and_zip_usa == extract_usa(p.address)
      state    == StateZipItem(state_and_zip_usa, 0)
      postcode == StateZipItem(state_and_zip_usa, 1)
  IN  [ gPlusPlaceId |-> p.gPlusPlaceId,
        name       |-> p.name,
        address    |-> ConcatWs(<< "," >>, The(p.address)),
        price      |-> PriceTier(p.price),
        state      |-> state,
        postcode   |-> postcode,
        country    |-> Country(state),
        population |-> Population(postcode) ]

\* spark.read.json(..., mode="DROPMALFORMED"): corrupted lines are dropped
ReadJsonDropMalformed(raw) == BagFilter({ r \in DOMAIN raw : r.wellformed }, raw)

\* DataFrameWriter without .mode(...): the default mode fails on an existing path
WriteFails(location) == ~IsNull(location)

\* the steps of main(), in the order it runs them
MainSteps ==
  << "process_places", "process_reviews", "create_data_lake", "explode",
     "filter_rare", "write_lakes", "verify_lakes", "launch_redshift_cluster",
     "connect", "load_staging_table", "load_final_tables", "check_data_quality",
     "drop_staging_table", "clear_temp_data", "done" >>

\* Abort as if main() caught the exception, logged it and went on
Abort_Continue(msg) ==
  /\ fatal' = msg
  /\ pc' = MainSteps[(CHOOSE i \in 1..(Len(MainSteps) - 1) : MainSteps[i] = pc) + 1]

\* raise: the exception is caught nowhere, so it ends main()
Abort(msg) == pc' = "aborted" /\ fatal' = msg

process_places ==
  /\ pc = "process_places"
  /\ fixed' = fixed \cup {"places"}
  /\ LET places_df == ReadJsonDropMalformed(raw_places)
     IN  IF \E p \in DOMAIN places_df : ExtractUsaRaises(p.address)
         THEN Abort("udf error") /\ UNCHANGED prepped_places
         ELSE IF WriteFails(prepped_places)
         THEN Abort("path already exists") /\ UNCHANGED prepped_places
         ELSE /\ prepped_places' = Some(BagImage([ p \in DOMAIN places_df |-> PreppedPlace(p) ],
                                            places_df))
              /\ pc' = "process_reviews"
              /\ UNCHANGED fatal
  /\ UNCHANGED << tz, category, raw_places, raw_reviews, prepped_reviews,
                  reviews_df, lake, counts, reviews_lake, temp_lake, cluster,
                  conn, ip, wh, log, report, aws, calls, earlier >>

-----------------------------------------------------------------------------
(* Reviews Enricher: process_reviews *)

\* F.hour(reviewTime): the hour of the day in the session time zone
Hour(unixReviewTime) ==
  IF IsNull(unixReviewTime) THEN Null
  ELSE Some(((The(unixReviewTime) + tz * 3600) \div 3600) % 24)

WeekdayNames == << "Thu", "Fri", "Sat", "Sun", "Mon", "Tue", "Wed" >>

\* F.date_format(reviewTime, "E"); 1970-01-01 was a Thursday
Weekday(unixReviewTime) ==
  IF IsNull(unixReviewTime) THEN Null
  ELSE Some(WeekdayNames[(((The(unixReviewTime) + tz * 3600) \div 86400) % 7) + 1])

\* NightCond with the upper bound exclusive
NightCond_Gt(h) == h < 8 \/ h > 18

\* the first when(...) of day_night: (hour < 8) | (hour >= 18)
NightCond(h) == h < 8 \/ h >= 18

\* the second when(...) of day_night: (hour >= 8) | (hour < 18)
DayCond(h) == h >= 8 \/ h < 18

\* F.when(NightCond, 'night').when(DayCond, 'day').otherwise(None);
\* a comparison with a null hour is null, which no when(...) accepts
DayNight(hour) ==
  IF ~IsNull(hour) /\ NightCond(The(hour)) THEN Some("night")
  ELSE IF ~IsNull(hour) /\ DayCond(The(hour)) THEN Some("day")
  ELSE Null

RECURSIVE Gcd(_, _)
Gcd(a, b) == IF b = 0 THEN a ELSE Gcd(b, a % b)

\* the number sum/n, as a fraction in lowest terms
Mean(sum, n) ==
  LET g == Gcd(sum, n) IN [ num |-> sum \div g, den |-> n \div g ]

\* the rows of one window partition of Window.partitionBy("gPlusUserId")
UserPartition(df, user) == { r \in DOMAIN df : r.gPlusUserId = user }

\* UserAvgRating as if the window ran after the categories filter (0 for a user
\* it leaves no review of)
UserAvgRating_Filtered(df, user) ==
  LET part == { r \in UserPartition(df, user) : ~IsNull(r.categories) }
  IN  IF part = {} THEN Mean(0, 1)
      ELSE Mean(SumOver([ r \in DOMAIN df |-> df[r] * r.rating ], part),
                SumOver(df, part))

\* F.avg("rating").over(Window.partitionBy("gPlusUserId")) at a row of `user`
UserAvgRating(df, user) ==
  LET part == UserPartition(df, user)
  IN  Mean(SumOver([ r \in DOMAIN df |-> df[r] * r.rating ], part),
           SumOver(df, part))

\* one row of reviews_df as process_reviews writes it
PreppedReview(df, r) ==
  [ gPlusUserId   |-> r.gPlusUserId,
    gPlusPlaceId  |-> r.gPlusPlaceId,
    rating        |-> r.rating,
    reviewText    |-> r.reviewText,
    categories    |-> r.categories,
    reviewTime    |-> r.unixReviewTime,
    weekday       |-> Weekday(r.unixReviewTime),
    day_night     |-> DayNight(Hour(r.unixReviewTime)),
    userAvgRating |-> UserAvgRating(df, r.gPlusUserId) ]

process_reviews ==
  /\ pc = "process_reviews"
  /\ fixed' = fixed \cup {"reviews"}
  /\ LET df == ReadJsonDropMalformed(raw_reviews)
     IN  IF WriteFails(prepped_reviews)
         THEN Abort("path already exists") /\ UNCHANGED prepped_reviews
         ELSE /\ prepped_reviews' = Some(BagImage([ r \in DOMAIN df |-> PreppedReview(df, r) ], df))
              /\ pc' = "create_data_lake"
              /\ UNCHANGED fatal
  /\ UNCHANGED << tz, category, raw_places, raw_reviews, prepped_places,
                  reviews_df, lake, counts, reviews_lake, temp_lake, cluster,
                  conn, ip, wh, log, report, aws, calls, earlier >>

-----------------------------------------------------------------------------
(* Lake Builder: create_data_lake *)

\* Spark writes no null field to JSON and infers the schema on reading it back:
\* a column that is null in every row written is no column of the frame read
HasColumn(df, col) == \E r \in DOMAIN df : ~IsNull(r[col])

\* reviews_df.filter(reviews_df.categories.isNotNull())
FilterCategories(df) == BagFilter({ r \in DOMAIN df : ~IsNull(r.categories) }, df)

\* places_df.filter(places_df.country == "USA")
FilterUsa(df) == BagFilter({ p \in DOMAIN df : p.country = Some("USA") }, df)

\* the row the join makes of a review and a place with the same gPlusPlaceId
JoinedRow(r, p) ==
  [ gPlusPlaceId  |-> r.gPlusPlaceId,
    gPlusUserId   |-> r.gPlusUserId,
    rating        |-> r.rating,
    reviewText    |-> r.reviewText,
    categories    |-> r.categories,
    reviewTime    |-> r.reviewTime,
    weekday       |-> r.weekday,
    day_night     |-> r.day_night,
    userAvgRating |-> r.userAvgRating,
    name          |-> p.name,
    address       |-> p.address,
    price         |-> p.price,
    state         |-> p.state,
    postcode      |-> p.postcode,
    country       |-> p.country,
    population    |-> p.population ]

\* reviews.join(places, "gPlusPlaceId", how="inner")
InnerJoin(reviews, places) ==
  LET pairs  == { rp \in (DOMAIN reviews) \X (DOMAIN places) :
                    rp[1].gPlusPlaceId = rp[2].gPlusPlaceId }
      weight == [ rp \in pairs |-> reviews[rp[1]] * places[rp[2]] ]
  IN  BagImage([ rp \in pairs |-> JoinedRow(rp[1], rp[2]) ], weight)

\* JoinTooLarge with >= for >
JoinTooLarge_Ge(lake_count, reviews_count) == lake_count >= reviews_count

\* the comparison of invariant check A
JoinTooLarge(lake_count, reviews_count) == lake_count > reviews_count

NoCounts ==
  [ reviews_count |-> 0, lake_count |-> 0,
    pre_filter_count |-> 0, post_filter_count |-> 0 ]

\* lines 133-145: read, filter, join, check A
create_data_lake ==
  /\ pc = "create_data_lake"
  /\ IF IsNull(prepped_reviews) \/ IsNull(prepped_places)
     THEN Abort("path does not exist") /\ UNCHANGED << reviews_df, lake, counts >>
     ELSE IF ~HasColumn(The(prepped_reviews), "categories")
             \/ ~HasColumn(The(prepped_places), "country")
     THEN Abort("no such column") /\ UNCHANGED << reviews_df, lake, counts >>
     ELSE LET rdf == FilterCategories(The(prepped_reviews))
              pdf == FilterUsa(The(prepped_places))
              lk  == InnerJoin(rdf, pdf)
          IN  /\ reviews_df' = rdf
              /\ lake' = lk
              /\ counts' = [ counts EXCEPT !.reviews_count = Count(rdf),
                                           !.lake_count = Count(lk) ]
              /\ IF JoinTooLarge(Count(lk), Count(rdf))
                 THEN Abort("Join resulted in too many rows")
                 ELSE pc' = "explode" /\ UNCHANGED fatal
  /\ UNCHANGED << tz, category, raw_places, raw_reviews, fixed, prepped_places,
                  prepped_reviews, reviews_lake, temp_lake, cluster, conn, ip,
                  wh, log, report, aws, calls, earlier >>

\* the row explode makes of element i of a row's categories array
ExplodedRow(r, i) ==
  [ gPlusPlaceId  |-> r.gPlusPlaceId,
    gPlusUserId   |-> r.gPlusUserId,
    rating        |-> r.rating,
    reviewText    |-> r.reviewText,
    category      |-> The(r.categories)[i],
    reviewTime    |-> r.reviewTime,
    weekday       |-> r.weekday,
    day_night     |-> r.day_night,
    userAvgRating |-> r.userAvgRating,
    name          |-> r.name,
    address       |-> r.address,
    price         |-> r.price,
    state         |-> r.state,
    postcode      |-> r.postcode,
    country       |-> r.country,
    population    |-> r.population ]

\* withColumn("categories", explode("categories")).withColumnRenamed(.., "category")
Explode(df) ==
  LET items  == UNION { { << r, i >> : i \in 1..Len(The(r.categories)) } :
                          r \in DOMAIN df }
      weight == [ ri \in items |-> df[ri[1]] ]
  IN  BagImage([ ri \in items |-> ExplodedRow(ri[1], ri[2]) ], weight)

\* lines 147-150: flatten the categories column
explode ==
  /\ pc = "explode"
  /\ lake' = Explode(lake)
  /\ pc' = "filter_rare"
  /\ UNCHANGED << fatal, tz, category, raw_places, raw_reviews, fixed,
                  prepped_places, prepped_reviews, reviews_df, counts,
                  reviews_lake, temp_lake, cluster, conn, ip, wh, log, report, aws,
           calls, earlier >>

\* lake.select("category").distinct().count()
DistinctCategories(df) == Cardinality({ r.category : r \in DOMAIN df })

\* F.count("gPlusPlaceId").over(Window.partitionBy("category")) at a row of cat;
\* the join key is null in no row of the lake
NumReviewsForCat(df, cat) == SumOver(df, { r \in DOMAIN df : r.category = cat })

RareThreshold == 10

\* Frequent with >= for >
Frequent_Ge(num_reviews_for_cat) == num_reviews_for_cat >= RareThreshold

\* the predicate of lake.filter(lake.num_reviews_for_cat > 10)
Frequent(num_reviews_for_cat) == num_reviews_for_cat > RareThreshold

\* FilterWasNoOp with > for >=
FilterWasNoOp_Gt(post_filter_count, pre_filter_count) ==
  post_filter_count > pre_filter_count

\* the comparison of invariant check B
FilterWasNoOp(post_filter_count, pre_filter_count) ==
  post_filter_count >= pre_filter_count

\* lines 151-159: drop the rare categories, check B
filter_rare ==
  /\ pc = "filter_rare"
  /\ LET filtered ==
           BagFilter({ r \in DOMAIN lake : Frequent(NumReviewsForCat(lake, r.category)) },
                     lake)
         pre  == DistinctCategories(lake)
         post == DistinctCategories(filtered)
     IN  /\ lake' = filtered
         /\ counts' = [ counts EXCEPT !.pre_filter_count = pre,
                                      !.post_filter_count = post ]
         /\ IF FilterWasNoOp(post, pre)
            THEN Abort("Categories were incorrectly filtered")
            ELSE pc' = "write_lakes" /\ UNCHANGED fatal
  /\ UNCHANGED << tz, category, raw_places, raw_reviews, fixed, prepped_places,
                  prepped_reviews, reviews_df, reviews_lake, temp_lake, cluster,
                  conn, ip, wh, log, report, aws, calls, earlier >>

\* the 15 columns of the flat staging projection
StagingRow(r) ==
  [ gPlusPlaceId  |-> r.gPlusPlaceId,
    category      |-> r.category,
    day_night     |-> r.day_night,
    gPlusUserId   |-> r.gPlusUserId,
    rating        |-> r.rating,
    reviewTime    |-> r.reviewTime,
    userAvgRating |-> r.userAvgRating,
    weekday       |-> r.weekday,
    address       |-> r.address,
    country       |-> r.country,
    name          |-> r.name,
    population    |-> r.population,
    postcode      |-> r.postcode,
    price         |-> r.price,
    state         |-> r.state ]

\* the nullable columns lake.select(...) names: each must be a column of the
\* frame read from prepped/reviews or prepped/places
SelectResolves ==
  /\ \A c \in {"day_night", "reviewTime", "weekday"} :
       HasColumn(The(prepped_reviews), c)
  /\ \A c \in {"population", "postcode", "price", "state"} :
       HasColumn(The(prepped_places), c)

\* lines 161-165: materialize the partitioned lake, then the flat projection
write_lakes ==
  /\ pc = "write_lakes"
  /\ IF WriteFails(reviews_lake)
     THEN Abort("path already exists") /\ UNCHANGED << reviews_lake, temp_lake >>
     ELSE /\ reviews_lake' = Some(lake)
          /\ IF ~SelectResolves
             THEN Abort("cannot resolve column") /\ UNCHANGED temp_lake
             ELSE IF WriteFails(temp_lake)
             THEN Abort("path already exists") /\ UNCHANGED temp_lake
             ELSE /\ temp_lake' = Some(BagImage([ r \in DOMAIN lake |-> StagingRow(r) ], lake))
                  /\ pc' = "verify_lakes"
                  /\ UNCHANGED fatal
  /\ UNCHANGED << tz, category, raw_places, raw_reviews, fixed, prepped_places,
                  prepped_reviews, reviews_df, lake, counts, cluster, conn, ip,
                  wh, log, report, aws, calls, earlier >>

\* lines 167-173: read both outputs back, check C; then spark.stop() (line 285)
verify_lakes ==
  /\ pc = "verify_lakes"
  /\ LET count_reviews == Count(The(reviews_lake))
         count_temp    == Count(The(temp_lake))
     IN  IF count_reviews = 0 \/ count_temp = 0
         THEN Abort("Data lakes were not populated")
         ELSE pc' = "launch_redshift_cluster" /\ UNCHANGED fatal
  /\ UNCHANGED << tz, category, raw_places, raw_reviews, fixed, prepped_places,
                  prepped_reviews, reviews_df, lake, counts, reviews_lake,
                  temp_lake, cluster, conn, ip, wh, log, report, aws, calls,
                  earlier >>

-----------------------------------------------------------------------------
(* Cluster Provisioner and connection *)

\* an account in which none of the role, its policy and the ingress rule exists
AwsFresh == [ role |-> FALSE, policy |-> FALSE, ingress |-> FALSE ]

\* the boto3 calls of launch_redshift_cluster(), in the order it makes them:
\* the fifth is the status poll, the sixth the look-up of the endpoint
ProvisionCalls ==
  << "create_role", "attach_role_policy", "get_role", "create_cluster",
     "describe_clusters", "describe_clusters", "authorize_ingress" >>

\* the service rejects the call in the account's present state: the role,
\* cluster or rule to create exists already, or the one to use does not
Rejected(n) ==
  CASE n = 1 -> aws.role
    [] n = 2 -> ~aws.role
    [] n = 3 -> ~aws.role
    [] n = 4 -> cluster # "absent"
    [] n = 5 -> cluster = "absent"
    [] n = 6 -> cluster = "absent"
    [] n = 7 -> aws.ingress

\* what a call that succeeds creates
Provisioned(n) ==
  CASE n = 1 -> [ aws EXCEPT !.role = TRUE ]
    [] n = 2 -> [ aws EXCEPT !.policy = TRUE ]
    [] n = 7 -> [ aws EXCEPT !.ingress = TRUE ]
    [] OTHER -> aws

\* every call inside a try block of its own
Guarded_All(call) == TRUE

\* the calls made inside try: ... except Exception as e: print(e)
Guarded(call) == call \in { "create_role", "create_cluster", "authorize_ingress" }

\* status polls after which the cluster may still be creating
MaxPolls == 2

\* the polls of the cluster's status this run has made
Polls == Cardinality({ i \in DOMAIN calls : i >= 5 })

\* while status != 'available': time.sleep(60), during which creation goes on
Sleep ==
  IF cluster # "creating" THEN { cluster }
  ELSE IF Polls < MaxPolls THEN { "creating", "available" }
  ELSE { "available" }

\* launch_redshift_cluster(), one boto3 call at a time: a call that raises
\* inside a try block is printed and the next call follows; a call that
\* raises outside one ends the run; it returns after the last call
launch_redshift_cluster ==
  /\ pc = "launch_redshift_cluster"
  /\ ip \in DOMAIN ProvisionCalls
  /\ \E answered \in BOOLEAN :
       LET ok == answered /\ ~Rejected(ip)
           last == ip = Len(ProvisionCalls)
       IN  /\ calls' = Append(calls, [ call |-> ProvisionCalls[ip], ok |-> ok ])
           /\ aws' = IF ok THEN Provisioned(ip) ELSE aws
           /\ IF ok /\ ip = 4 THEN cluster' = "creating"
              ELSE IF ok /\ ip = 5 THEN cluster' \in Sleep
              ELSE UNCHANGED cluster
           /\ IF ~ok /\ ~Guarded(ProvisionCalls[ip])
              THEN Abort("provisioning error") /\ UNCHANGED ip
              ELSE /\ UNCHANGED fatal
                   /\ pc' = IF last THEN "connect" ELSE pc
                   /\ ip' = IF last \/ (ip = 5 /\ cluster' # "available")
                            THEN ip ELSE ip + 1
  /\ UNCHANGED << tz, category, raw_places, raw_reviews, fixed, prepped_places,
                  prepped_reviews, reviews_df, lake, counts, reviews_lake,
                  temp_lake, conn, wh, log, report, earlier >>

\* psycopg2.connect(...) and conn.cursor()
connect ==
  /\ pc = "connect"
  /\ \E ok \in BOOLEAN :
       IF ok THEN conn' = "open" /\ pc' = "load_staging_table" /\ UNCHANGED fatal
       ELSE Abort("connection error") /\ UNCHANGED conn
  /\ ip' = 1
  /\ UNCHANGED << tz, category, raw_places, raw_reviews, fixed, prepped_places,
                  prepped_reviews, reviews_df, lake, counts, reviews_lake,
                  temp_lake, cluster, wh, log, report, aws, calls, earlier >>

-----------------------------------------------------------------------------
(* Schema Catalog: sql_queries.py *)

Tables == {"staging", "users", "places", "population", "reviews"}

Stmt(op, table) == [ op |-> op, table |-> table ]

staging_table_drop == Stmt("drop", "staging")

staging_table_create == Stmt("create", "staging")

staging_table_copy == Stmt("copy", "staging")

staging_table_filter == Stmt("filter", "staging")

create_table_queries ==
  << Stmt("create", "users"), Stmt("create", "places"),
     Stmt("create", "population"), Stmt("create", "reviews") >>

drop_table_queries ==
  << Stmt("drop", "reviews"), Stmt("drop", "users"),
     Stmt("drop", "places"), Stmt("drop", "population") >>

insert_table_queries ==
  << Stmt("insert", "users"), Stmt("insert", "places"),
     Stmt("insert", "population"), Stmt("insert", "reviews") >>

sql_check_filled(table) == Stmt("count", table)

\* REFERENCES clauses of the CREATE TABLE statements
References(table) == IF table = "reviews" THEN {"places", "users"} ELSE {}

\* category LIKE '%sub%', for the one-character category names of the inputs
Like(cat, sub) == sub = "" \/ sub = cat

\* SELECT [DISTINCT] ... FROM staging of the four INSERT statements
InsertSelect(table, staging) ==
  CASE table = "users" ->
         SetToBag({ [ gPlusUserId |-> r.gPlusUserId, avgRating |-> r.userAvgRating ] :
                    r \in DOMAIN staging })
    [] table = "places" ->
         SetToBag({ [ gPlusPlaceId |-> r.gPlusPlaceId, name |-> r.name,
                      price |-> r.price, state |-> r.state,
                      postcode |-> r.postcode ] : r \in DOMAIN staging })
    [] table = "population" ->
         SetToBag({ [ postcode |-> r.postcode, population |-> r.population ] :
                    r \in DOMAIN staging })
    [] table = "reviews" ->
         BagImage([ r \in DOMAIN staging |->
                      [ gPlusPlaceId |-> r.gPlusPlaceId,
                        gPlusUserId |-> r.gPlusUserId,
                        category |-> r.category, rating |-> r.rating,
                        weekday |-> r.weekday, day_night |-> r.day_night ] ],
                  staging)

\* whether the warehouse accepts the statement in state w
Accepts(stmt, w) ==
  CASE stmt.op = "drop"   -> \A t \in Tables :
                               ~IsNull(w[t]) => stmt.table \notin References(t)
    [] stmt.op = "create" -> /\ IsNull(w[stmt.table])
                             /\ \A t \in References(stmt.table) : ~IsNull(w[t])
    [] stmt.op = "copy"   -> ~IsNull(w["staging"]) /\ ~IsNull(temp_lake)
    [] stmt.op = "filter" -> ~IsNull(w["staging"])
    [] stmt.op = "insert" -> ~IsNull(w[stmt.table]) /\ ~IsNull(w["staging"])
    [] stmt.op = "count"  -> ~IsNull(w[stmt.table])

\* the warehouse after the statement, when it accepts it
Effect(stmt, w) ==
  CASE stmt.op = "drop"   -> [ w EXCEPT ![stmt.table] = Null ]
    [] stmt.op = "create" -> [ w EXCEPT ![stmt.table] = Some(EmptyBag) ]
    [] stmt.op = "copy"   ->
         [ w EXCEPT !["staging"] = Some(The(@) (+) The(temp_lake)) ]
    [] stmt.op = "filter" ->
         [ w EXCEPT !["staging"] =
             Some(BagFilter({ r \in DOMAIN The(@) : Like(r.category, category) },
                            The(@))) ]
    [] stmt.op = "insert" ->
         [ w EXCEPT ![stmt.table] =
             Some(The(@) (+) InsertSelect(stmt.table, The(w["staging"]))) ]
    [] stmt.op = "count"  -> w

\* cur.execute(stmt) returns normally: the session is in no failed transaction,
\* the server is reachable (ok) and accepts the statement
Succeeds(stmt, ok) == conn = "open" /\ ok /\ Accepts(stmt, wh)

\* cur.execute(stmt); conn.commit().  A statement that fails leaves the session
\* in a failed transaction (no rollback is issued), which rejects every later one
Execute(stmt, ok) ==
  /\ log' = Append(log, stmt)
  /\ IF Succeeds(stmt, ok)
     THEN wh' = Effect(stmt, wh) /\ UNCHANGED conn
     ELSE conn' = "failed" /\ UNCHANGED wh

-----------------------------------------------------------------------------
(* Warehouse Sync *)

\* the statements of load_staging_table, in the order of its try blocks
StagingStatements ==
  << staging_table_drop, staging_table_create, staging_table_copy,
     staging_table_filter >>

\* the statements of load_final_tables, in the order of its three loops
FinalStatements == drop_table_queries \o create_table_queries \o insert_table_queries

\* tables = ["reviews", "places", "population", "users"] of main()
CheckedTables == << "reviews", "places", "population", "users" >>

\* AfterTry as if the handler re-raised: a failed statement ends the function
AfterTry_Raise(succeeded, next) == IF succeeded THEN next ELSE "aborted"

\* try: cur.execute(..); conn.commit()  except Exception as err: print(err)
\* control leaves the try statement at the statement after it either way
AfterTry(succeeded, next) == next

\* the position after statement ip of a function with n statements
Advance(n, following) ==
  IF ip < n THEN << pc, ip + 1 >> ELSE << following, 1 >>

load_staging_table ==
  /\ pc = "load_staging_table"
  /\ \E ok \in BOOLEAN :
       LET stmt == StagingStatements[ip]
           next == Advance(Len(StagingStatements), "load_final_tables")
       IN  /\ Execute(stmt, ok)
           /\ pc' = AfterTry(Succeeds(stmt, ok), next[1])
           /\ ip' = next[2]
  /\ UNCHANGED << fatal, tz, category, raw_places, raw_reviews, fixed,
                  prepped_places, prepped_reviews, reviews_df, lake, counts,
                  reviews_lake, temp_lake, cluster, report, aws, calls,
                  earlier >>

load_final_tables ==
  /\ pc = "load_final_tables"
  /\ \E ok \in BOOLEAN :
       LET stmt == FinalStatements[ip]
           next == Advance(Len(FinalStatements), "check_data_quality")
       IN  /\ Execute(stmt, ok)
           /\ pc' = AfterTry(Succeeds(stmt, ok), next[1])
           /\ ip' = next[2]
  /\ UNCHANGED << fatal, tz, category, raw_places, raw_reviews, fixed,
                  prepped_places, prepped_reviews, reviews_df, lake, counts,
                  reviews_lake, temp_lake, cluster, report, aws, calls,
                  earlier >>

\* cur.fetchall() after SELECT COUNT(*) FROM public.{table}: the one row
\* holding the count
Fetchall(table) == << << Count(The(wh[table])) >> >>

\* the test of check_data_quality on the rows fetched
CheckFails(rows) == Len(rows) = 0

\* one iteration of the loop of check_data_quality
check_data_quality ==
  /\ pc = "check_data_quality"
  /\ \E ok \in BOOLEAN :
       LET table == CheckedTables[ip]
           stmt  == sql_check_filled(table)
           next  == Advance(Len(CheckedTables), "drop_staging_table")
       IN  /\ Execute(stmt, ok)
           /\ IF ~Succeeds(stmt, ok)
              THEN Abort("sql error") /\ UNCHANGED << ip, report >>
              ELSE IF CheckFails(Fetchall(table))
              THEN Abort("Data quality check failed") /\ UNCHANGED << ip, report >>
              ELSE /\ report' = report \cup {table}
                   /\ pc' = next[1]
                   /\ ip' = next[2]
                   /\ UNCHANGED fatal
  /\ UNCHANGED << tz, category, raw_places, raw_reviews, fixed, prepped_places,
                  prepped_reviews, reviews_df, lake, counts, reviews_lake,
                  temp_lake, cluster, aws, calls,
                  earlier >>

drop_staging_table ==
  /\ pc = "drop_staging_table"
  /\ \E ok \in BOOLEAN :
       /\ Execute(staging_table_drop, ok)
       /\ pc' = AfterTry(Succeeds(staging_table_drop, ok), "clear_temp_data")
  /\ UNCHANGED << fatal, tz, category, raw_places, raw_reviews, fixed,
                  prepped_places, prepped_reviews, reviews_df, lake, counts,
                  reviews_lake, temp_lake, cluster, ip, report, aws, calls,
                  earlier >>

\* clear_temp_data(): list and delete the objects under temp_lake/, then under
\* fixed/; a listing of no object has no 'Contents' key (KeyError)
clear_temp_data ==
  /\ pc = "clear_temp_data"
  /\ IF IsNull(temp_lake)
     THEN Abort("KeyError Contents") /\ UNCHANGED << temp_lake, fixed >>
     ELSE /\ temp_lake' = Null
          /\ IF fixed = {}
             THEN Abort("KeyError Contents") /\ UNCHANGED fixed
             ELSE fixed' = {} /\ pc' = "done" /\ UNCHANGED fatal
  /\ UNCHANGED << tz, category, raw_places, raw_reviews, prepped_places,
                  prepped_reviews, reviews_df, lake, counts, reviews_lake,
                  cluster, conn, ip, wh, log, report, aws, calls, earlier >>

\* python main-pipeline.py once more, after a run that ended: main() starts
\* with a new Spark session and no connection; the bucket, the account and the
\* warehouse are as the earlier runs left them
rerun ==
  /\ pc \in { "done", "aborted" }
  /\ earlier' = earlier \cup { pc }
  /\ pc' = "process_places"
  /\ fatal' = "none"
  /\ reviews_df' = EmptyBag
  /\ lake' = EmptyBag
  /\ counts' = NoCounts
  /\ conn' = "closed"
  /\ ip' = 1
  /\ log' = << >>
  /\ report' = {}
  /\ calls' = << >>
  /\ UNCHANGED << tz, category, raw_places, raw_reviews, fixed, prepped_places,
                  prepped_reviews, reviews_lake, temp_lake, cluster, wh, aws >>

-----------------------------------------------------------------------------
(* Inputs *)

\* most copies of one place record in places.json
MaxDup == 2

\* review records come in batches of this many copies
Batch == 5

\* most digits after the separator of a generated address segment
MaxDigits == 6

\* last day (since the epoch) of a generated review time
MaxDay == 1

\* the bag holding mult[i] copies of templates[i]
MkBag(templates, mult) ==
  LET present == { i \in DOMAIN templates : mult[i] > 0 }
  IN  [ x \in { templates[i] : i \in present } |->
          SumOver(mult, { i \in present : templates[i] = x }) ]

Place(id, address, price, wellformed) ==
  [ gPlusPlaceId |-> id, name |-> id, address |-> address, price |-> price,
    wellformed |-> wellformed ]

Review(user, place, rating, categories, time, wellformed) ==
  [ gPlusUserId |-> user, gPlusPlaceId |-> place, rating |-> rating,
    reviewText |-> "text", categories |-> categories, unixReviewTime |-> time,
    wellformed |-> wellformed ]

AddrCA == << << "1", " ", "M", "a", "i", "n" >>,
             << "L", "A", ",", " ", "C", "A", " ", "9", "0", "0", "0", "0" >> >>

AddrTX == << << "T", "X", "\t", "7", "0", "0", "0", "0" >> >>

AddrUK == << << "L", "o", "n", "d", "o", "n" >> >>

PlaceTemplates ==
  << Place("p1", Some(AddrCA), Some(<< "$", "$" >>), TRUE),
     Place("p2", Some(AddrTX), Null, TRUE),
     Place("p3", Some(AddrUK), Some(<< "$" >>), TRUE),
     Place("p4", Null, Null, FALSE),
     Place("p5", Some(<< >>), Null, TRUE) >>

ReviewTemplates ==
  << Review("u1", "p1", 5, Some(<< "A" >>), Some(9 * 3600), TRUE),
     Review("u2", "p1", 4, Some(<< "B" >>), Some(20 * 3600), TRUE),
     Review("u1", "p2", 2, Some(<< "C" >>), Some(86400 + 8 * 3600), TRUE),
     Review("u2", "p2", 1, Some(<< "A", "B" >>), Some(18 * 3600), TRUE),
     Review("u1", "p3", 3, Some(<< "B" >>), Null, TRUE),
     Review("u1", "p1", 3, Null, Some(7 * 3600), TRUE),
     Review("u1", "p1", 1, Some(<< "A" >>), Some(0), FALSE) >>

\* the numbers of copies a review template is loaded with
Mults == { 0, 1, RareThreshold + 1 } \cup { k * Batch : k \in 1..4 }

\* the numbers of copies of the five place templates
PlaceMults ==
  { << a, b, c, 1, 0 >> : a \in 0..MaxDup, b \in 0..1, c \in 0..1 }

\* the numbers of copies of the seven review templates
ReviewMults ==
  { << a, b, c, d, e, f, g >> :
      a \in Mults, b \in Mults, c \in { 0, 4 * Batch }, d \in 0..1,
      e \in 0..1, f \in 0..1, g \in 0..1 }

\* the state of everything the run derives, before main() starts
Fresh ==
  /\ fatal = "none"
  /\ fixed = {}
  /\ prepped_places = Null
  /\ prepped_reviews = Null
  /\ reviews_df = EmptyBag
  /\ lake = EmptyBag
  /\ counts = NoCounts
  /\ reviews_lake = Null
  /\ temp_lake = Null
  /\ cluster = "absent"
  /\ conn = "closed"
  /\ ip = 1
  /\ log = << >>
  /\ report = {}
  /\ aws = AwsFresh
  /\ calls = << >>
  /\ earlier = {}

WhFresh == [ t \in Tables |-> Null ]

\* the tables an earlier run left behind
WhOld == [ t \in Tables |-> Some(SetToBag({ [ stale |-> t ] })) ]

-----------------------------------------------------------------------------
(* Specifications *)

\* main(): a whole run, on a few inputs
Init ==
  /\ pc = "process_places"
  /\ tz = 0
  /\ category \in { "A", "Z" }
  /\ raw_places \in { MkBag(PlaceTemplates, << a, 0, 1, 0, e >>) :
                        a \in 0..MaxDup, e \in 0..1 }
  /\ raw_reviews \in { MkBag(ReviewTemplates, << a, b, 0, 0, e, 0, 0 >>) :
                         a \in { 0, RareThreshold + 1 },
                         b \in { 1, RareThreshold + 1 }, e \in 0..1 }
  /\ wh \in { WhFresh, WhOld }
  /\ Fresh

Next ==
  \/ process_places
  \/ process_reviews
  \/ create_data_lake
  \/ explode
  \/ filter_rare
  \/ write_lakes
  \/ verify_lakes
  \/ launch_redshift_cluster
  \/ connect
  \/ load_staging_table
  \/ load_final_tables
  \/ check_data_quality
  \/ drop_staging_table
  \/ clear_temp_data

Spec == Init /\ [][Next]_vars

\* the Spark stages of main(), on many inputs
InitLake ==
  /\ pc = "process_places"
  /\ tz = 0
  /\ category = "A"
  /\ raw_places \in { MkBag(PlaceTemplates, m) : m \in PlaceMults }
  /\ raw_reviews \in { MkBag(ReviewTemplates, m) : m \in ReviewMults }
  /\ wh = WhFresh
  /\ Fresh

NextLake ==
  \/ process_places
  \/ process_reviews
  \/ create_data_lake
  \/ explode
  \/ filter_rare
  \/ write_lakes
  \/ verify_lakes

SpecLake == InitLake /\ [][NextLake]_vars

\* generated address segments: letters, a separator, digits, a tail
SegLetters ==
  { << >>, << "C" >>, << "C", "A" >>, << "c", "a" >>, << "C", "a" >>,
    << "T", "X", "A" >>, << "9", "0" >> }

SegSeparators == { << >>, << " " >>, << "\t" >>, << " ", " " >>, << "-" >> }

SegDigits == { [ i \in 1..n |-> IF i % 2 = 1 THEN "9" ELSE "0" ] : n \in 0..MaxDigits }

SegTails == { << >>, << "-", "7" >>, << " ", "U", "S" >> }

Segments ==
  { l \o p \o d \o t : l \in SegLetters, p \in SegSeparators, d \in SegDigits,
                       t \in SegTails }

\* what precedes the segment in its address line
LinePrefixes == { << >>, << "L", "A", ",", " " >>, << "L", "A", "," >> }

AddressInputs ==
  { Null, Some(<< >>) }
    \cup { Some(<< p \o g >>) : p \in LinePrefixes, g \in Segments }
    \cup { Some(<< << "1", " ", "M", "a", "i", "n" >>, p \o g >>) :
             p \in LinePrefixes, g \in Segments }
    \cup { Some(<< g, << "U", "S", "A" >> >>) : g \in Segments }

\* process_places on one place record, over many addresses
InitAddr ==
  /\ pc = "process_places"
  /\ tz = 0
  /\ category = "A"
  /\ raw_places \in { SetToBag({ Place("p1", a, Some(<< "$", "$" >>), TRUE) }) :
                        a \in AddressInputs }
  /\ raw_reviews = EmptyBag
  /\ wh = WhFresh
  /\ Fresh

SpecAddr == InitAddr /\ [][process_places]_vars

\* generated review times: every hour of days 0..MaxDay, at its first and its
\* last second, and no time at all
TimeInputs ==
  { Null } \cup { Some(d * 86400 + h * 3600 + sec) :
                    d \in 0..MaxDay, h \in 0..23, sec \in { 0, 3599 } }

\* session time zones, as whole hours east of UTC
ZoneInputs == { -8, 0, 1 }

\* process_reviews on one or two reviews of one user, over many review times
InitHours ==
  /\ pc = "process_reviews"
  /\ tz \in ZoneInputs
  /\ category = "A"
  /\ raw_places = EmptyBag
  /\ raw_reviews \in { MkBag(<< Review("u1", "p1", 4, Some(<< "A" >>), t, TRUE),
                                Review("u1", "p1", 1, Null, Some(12 * 3600), TRUE) >>,
                             << 1, n >>) : t \in TimeInputs, n \in 0..1 }
  /\ wh = WhFresh
  /\ Fresh

SpecHours == InitHours /\ [][process_reviews]_vars

\* main() run again and again against the same bucket
NextRuns == Next \/ rerun

SpecRuns == Init /\ [][NextRuns]_vars

\* the accounts launch_redshift_cluster() may find: the policy is attached to
\* the role, so it exists only if the role does
Accounts == { a \in [ role : BOOLEAN, policy : BOOLEAN, ingress : BOOLEAN ] :
                a.policy => a.role }

\* one run up to the connection, on one input, in every account
InitProvision ==
  /\ pc = "process_places"
  /\ fatal = "none"
  /\ tz = 0
  /\ category = "A"
  /\ raw_places = MkBag(PlaceTemplates, << 1, 0, 1, 0, 0 >>)
  /\ raw_reviews = MkBag(ReviewTemplates,
                         << RareThreshold + 1, 1, 0, 0, 0, 0, 0 >>)
  /\ fixed = {}
  /\ prepped_places = Null
  /\ prepped_reviews = Null
  /\ reviews_df = EmptyBag
  /\ lake = EmptyBag
  /\ counts = NoCounts
  /\ reviews_lake = Null
  /\ temp_lake = Null
  /\ cluster \in { "absent", "creating", "available" }
  /\ conn = "closed"
  /\ ip = 1
  /\ wh = WhFresh
  /\ log = << >>
  /\ report = {}
  /\ aws \in Accounts
  /\ calls = << >>
  /\ earlier = {}

NextProvision == NextLake \/ launch_redshift_cluster

SpecProvision == InitProvision /\ [][NextProvision]_vars

-----------------------------------------------------------------------------
(* Properties *)

\* the rows of a stored dataset, none when nothing is stored
Rows(location) == IF IsNull(location) THEN {} ELSE DOMAIN The(location)

\* the records of a raw dataset that survive parsing
Parsed(raw) == { r \in DOMAIN raw : r.wellformed }

\* C5: in every review written by process_reviews that has a review time, the
\* local hour h is in 0..23 and day_night is "day" iff 8 <= h < 18 and "night"
\* otherwise; it is absent for no hour.
C5_DayNightByHour ==
  \A q \in Rows(prepped_reviews) :
    ~IsNull(q.reviewTime) =>
      LET h == The(Hour(q.reviewTime))
      IN  /\ h \in 0..23
          /\ (8 <= h /\ h < 18) => q.day_night = Some("day")
          /\ ~(8 <= h /\ h < 18) => q.day_night = Some("night")

\* a review at local hour 17, in a zone other than UTC, classified "day"
C5_Witness ==
  /\ tz # 0
  /\ \E q \in Rows(prepped_reviews) :
       /\ ~IsNull(q.reviewTime)
       /\ Hour(q.reviewTime) = Some(17)
       /\ q.day_night = Some("day")

\* the last comma-space-separated segment of the last element of an address
LastSegment(address) ==
  LET parts == Split(The(address)[Len(The(address))], << ",", " " >>)
  IN  parts[Len(parts)]

\* two uppercase letters, one space and five digits at the start of seg
StartsWithStateZip(seg) ==
  /\ Len(seg) >= 8
  /\ seg[1] \in Upper /\ seg[2] \in Upper
  /\ seg[3] = " "
  /\ \A i \in 4..8 : seg[i] \in Digit

\* whether the address is one the claim promises a state and a postcode for
UsAddress(address) ==
  /\ ~IsNull(address)
  /\ The(address) # << >>
  /\ StartsWithStateZip(LastSegment(address))

\* C6: once process_places has run, a place whose address ends in a segment
\* starting with two uppercase letters, one space and five digits has that state
\* and postcode; every other address (another white-space separator, an empty
\* address, no address) gives a record with neither, and no error.
C6_UsAddressExtraction ==
  pc # "process_places" =>
    \A p \in Parsed(raw_places) :
      /\ fatal = "none"
      /\ \E q \in Rows(prepped_places) : q.gPlusPlaceId = p.gPlusPlaceId
      /\ \A q \in Rows(prepped_places) :
           q.gPlusPlaceId = p.gPlusPlaceId =>
             IF UsAddress(p.address)
             THEN /\ q.state = Some(Sub(LastSegment(p.address), 1, 2))
                  /\ q.postcode = Some(Sub(LastSegment(p.address), 4, 8))
             ELSE IsNull(q.state) /\ IsNull(q.postcode)

ValidState(state) ==
  /\ ~IsNull(state)
  /\ Len(The(state)) = 2
  /\ \A i \in 1..2 : The(state)[i] \in Upper

ValidPostcode(postcode) ==
  /\ ~IsNull(postcode)
  /\ Len(The(postcode)) = 5
  /\ \A i \in 1..5 : The(postcode)[i] \in Digit

\* C7: in every record process_places writes, country is "USA" iff state is a
\* 2-letter uppercase code and postcode a 5-digit string; otherwise country,
\* state and postcode are all absent.
C7_PlaceRecordInvariant ==
  \A q \in Rows(prepped_places) :
    IF q.country = Some("USA")
    THEN ValidState(q.state) /\ ValidPostcode(q.postcode)
    ELSE IsNull(q.country) /\ IsNull(q.state) /\ IsNull(q.postcode)

\* the steps of main() after the join and check A of create_data_lake
PastJoin ==
  { "explode", "filter_rare", "write_lakes", "verify_lakes",
    "launch_redshift_cluster" }

\* the exceptions create_data_lake raises after its join has run
PastJoinFatal ==
  { "Categories were incorrectly filtered", "cannot resolve column",
    "Data lakes were not populated" }

\* the USA places of prepped/places
UsaPlaces == IF IsNull(prepped_places) THEN EmptyBag ELSE FilterUsa(The(prepped_places))

\* the number of USA place rows with the placeId of review r
Matches(r) ==
  SumOver(UsaPlaces, { p \in DOMAIN UsaPlaces : p.gPlusPlaceId = r.gPlusPlaceId })

\* the number of rows the inner join makes of the filtered reviews
JoinedRows ==
  SumOver([ r \in DOMAIN reviews_df |-> reviews_df[r] * Matches(r) ],
          DOMAIN reviews_df)

\* C2, as claimed: create_data_lake never proceeds past the join when some
\* review has been joined to more than one row by a duplicated USA placeId.
C2_NoDuplicateJoinProceeds ==
  pc \in PastJoin => \A r \in DOMAIN reviews_df : Matches(r) <= 1

\* C2, amended: create_data_lake proceeds past the join only with no more joined
\* rows than filtered reviews, raises "too many rows" only with more, and a
\* duplicated USA placeId referenced by a review makes it raise whenever every
\* filtered review matches some USA place.
C2_JoinCountCheck ==
  /\ pc \in PastJoin => JoinedRows <= Count(reviews_df)
  /\ fatal = "Join resulted in too many rows" =>
       /\ pc = "aborted"
       /\ JoinedRows > Count(reviews_df)
  /\ ( /\ \A r \in DOMAIN reviews_df : Matches(r) >= 1
       /\ \E r \in DOMAIN reviews_df : Matches(r) >= 2 ) =>
       (pc \notin PastJoin /\ fatal \notin PastJoinFatal)

\* the run raised "too many rows" on a duplicated placeId, with a review that
\* the join dropped
C2_Witness ==
  /\ fatal = "Join resulted in too many rows"
  /\ \E r \in DOMAIN reviews_df : Matches(r) >= 2
  /\ \E r \in DOMAIN reviews_df : Matches(r) = 0

\* the number of rows of category cat in the data frame df
RowsOfCategory(df, cat) ==
  BagCardinality([ r \in { x \in DOMAIN df : x.category = cat } |-> df[r] ])

\* C3: the filter step keeps exactly the exploded rows whose category has more
\* than 10 rows in the lake before it: every such row stays, with all its
\* copies, and no other row does.
C3_RareCategoryFilter ==
  [][ pc = "filter_rare" =>
        /\ \A r \in DOMAIN lake :
             IF RowsOfCategory(lake, r.category) > 10
             THEN r \in DOMAIN lake' /\ lake'[r] = lake[r]
             ELSE r \notin DOMAIN lake'
        /\ DOMAIN lake' \subseteq DOMAIN lake ]_vars

\* the exploded lake before the rare-category filter, from the stored inputs
PreFilterLake == Explode(InnerJoin(reviews_df, UsaPlaces))

\* the filter has run on categories with counts {A: 15, B: 5, C: 20} and left
\* exactly A and C, with all their rows
C3_Witness ==
  /\ pc = "write_lakes"
  /\ { r.category : r \in DOMAIN PreFilterLake } = { "A", "B", "C" }
  /\ RowsOfCategory(PreFilterLake, "A") = 15
  /\ RowsOfCategory(PreFilterLake, "B") = 5
  /\ RowsOfCategory(PreFilterLake, "C") = 20
  /\ { r.category : r \in DOMAIN lake } = { "A", "C" }
  /\ RowsOfCategory(lake, "A") = 15
  /\ RowsOfCategory(lake, "C") = 20

\* the categories of the exploded lake, and those with more than 10 rows
PreCategories == { r.category : r \in DOMAIN PreFilterLake }

FrequentCategories ==
  { c \in PreCategories : RowsOfCategory(PreFilterLake, c) > 10 }

\* whether the filter step of create_data_lake has run
FilterRan ==
  pc \in { "write_lakes", "verify_lakes", "launch_redshift_cluster" }
    \/ fatal \in PastJoinFatal

\* C4: reviews_lake and temp_lake are written only if the filter left strictly
\* fewer distinct categories than it found; when it removed none (all of them
\* frequent, or none there) the run aborts on check B with neither written.
C4_CheckBGuardsOutputs ==
  /\ (~IsNull(reviews_lake) \/ ~IsNull(temp_lake)) =>
       Cardinality(FrequentCategories) < Cardinality(PreCategories)
  /\ (FilterRan /\ FrequentCategories = PreCategories) =>
       /\ pc = "aborted"
       /\ fatal = "Categories were incorrectly filtered"
       /\ IsNull(reviews_lake) /\ IsNull(temp_lake)

\* check B aborted a run in which each of two categories had more than 10 rows
C4_Witness ==
  /\ fatal = "Categories were incorrectly filtered"
  /\ Cardinality(PreCategories) >= 2
  /\ FrequentCategories = PreCategories
  /\ IsNull(reviews_lake) /\ IsNull(temp_lake)

\* the lake rows held anywhere: the local frame and the two stored outputs
LakeRows == DOMAIN lake \cup Rows(reviews_lake) \cup Rows(temp_lake)

\* sum and number of the ratings of all parsed reviews of a user
RatingSum(user) ==
  SumOver([ r \in DOMAIN raw_reviews |-> raw_reviews[r] * r.rating ],
          { r \in Parsed(raw_reviews) : r.gPlusUserId = user })

RatingCount(user) ==
  SumOver(raw_reviews, { r \in Parsed(raw_reviews) : r.gPlusUserId = user })

\* C8: every lake row of a user carries the mean rating of all parsed reviews of
\* that user, those that no lake row comes from included.
C8_UserAvgOverAllReviews ==
  \A q \in LakeRows :
    q.userAvgRating.num * RatingCount(q.gPlusUserId)
      = RatingSum(q.gPlusUserId) * q.userAvgRating.den

\* the lake is written with rows of a user who also has a parsed review without
\* categories, one of a place outside the USA and one of a rare category
C8_Witness ==
  /\ ~IsNull(reviews_lake)
  /\ \E q \in Rows(reviews_lake) :
       LET mine == { r \in Parsed(raw_reviews) : r.gPlusUserId = q.gPlusUserId }
       IN  /\ \E r \in mine : IsNull(r.categories)
           /\ \E r \in mine : ~IsNull(r.categories) /\ r \in DOMAIN raw_reviews
                                /\ \A p \in DOMAIN UsaPlaces :
                                     p.gPlusPlaceId # r.gPlusPlaceId
           /\ \E r \in mine :
                /\ ~IsNull(r.categories)
                /\ \E i \in 1..Len(The(r.categories)) :
                     The(r.categories)[i] \in PreCategories \ FrequentCategories
           /\ \E r \in mine : r.rating # q.rating

\* C1: check_data_quality reports a table as filled only if it holds at least
\* one row; on a table with zero rows it raises instead.
C1_FillCheckRejectsEmpty ==
  \A t \in report : ~IsNull(wh[t]) /\ Count(The(wh[t])) >= 1

\* the statements of check_data_quality, in the order of its loop
CheckStatements == [ i \in 1..Len(CheckedTables) |-> sql_check_filled(CheckedTables[i]) ]

\* the statements cur.execute has been handed when main() stands at (pc, ip), if
\* every one before was attempted once and in order
StatementsBefore ==
  CASE pc = "load_staging_table" -> SubSeq(StagingStatements, 1, ip - 1)
    [] pc = "load_final_tables"  ->
         StagingStatements \o SubSeq(FinalStatements, 1, ip - 1)
    [] pc = "check_data_quality" ->
         StagingStatements \o FinalStatements \o SubSeq(CheckStatements, 1, ip - 1)
    [] pc = "drop_staging_table" ->
         StagingStatements \o FinalStatements \o CheckStatements
    [] pc \in { "clear_temp_data", "done" } ->
         StagingStatements \o FinalStatements \o CheckStatements
           \o << staging_table_drop >>
    [] OTHER -> << >>

SyncSteps ==
  { "load_staging_table", "load_final_tables", "check_data_quality",
    "drop_staging_table", "clear_temp_data", "done" }

\* C9: in load_staging_table, load_final_tables and drop_staging_table every
\* statement is attempted once, in its listed order, whatever failed before; a
\* failure raises out of none of them: the only exceptions after the connection
\* is made come from check_data_quality and clear_temp_data.
C9_LogAndContinue ==
  /\ pc \in SyncSteps => log = StatementsBefore
  /\ (pc = "aborted" /\ conn # "closed") =>
       /\ fatal \in { "sql error", "Data quality check failed", "KeyError Contents" }
       /\ Len(log) >= Len(StagingStatements) + Len(FinalStatements)
       /\ SubSeq(log, 1, Len(StagingStatements) + Len(FinalStatements))
            = StagingStatements \o FinalStatements

\* load_final_tables has returned after the very first statement failed: all 16
\* statements were attempted all the same
C9_Witness ==
  /\ pc = "check_data_quality"
  /\ conn = "failed"
  /\ wh = WhOld
  /\ log = StagingStatements \o FinalStatements

\* the exceptions of the Spark stages of main()
SparkFatal ==
  { "udf error", "path already exists", "path does not exist", "no such column",
    "Join resulted in too many rows", "Categories were incorrectly filtered",
    "cannot resolve column", "Data lakes were not populated" }

\* the exceptions of check_data_quality
CheckFatal == { "sql error", "Data quality check failed" }

-----------------------------------------------------------------------------
(* C11: re-runs *)

\* C11: a run that starts after an earlier completed run against the same
\* bucket overwrites the derived locations it writes: it never fails because
\* its output already exists
C11_RerunOverwrites == "done" \in earlier => fatal # "path already exists"

-----------------------------------------------------------------------------
(* C12: the provisioner's failures *)

Failed == { i \in DOMAIN calls : ~calls[i].ok }

\* C12 as stated: every provisioning call catches its own failure, so a failed
\* call never ends the run
C12_EveryCallContinues == Failed # {} => pc # "aborted"

\* C12: create_role, create_cluster and authorize_ingress catch their own
\* failure and the next call follows, so provisioning returns whether or not
\* the role, the cluster or the ingress rule existed already; a failure of
\* attach_role_policy, get_role or describe_clusters ends the run at that call
C12_CreationCallsContinue ==
  /\ \A i \in Failed :
       IF calls[i].call \in { "create_role", "create_cluster", "authorize_ingress" }
       THEN \/ i < Len(calls)
            \/ /\ fatal = "none"
               /\ IF calls[i].call = "authorize_ingress"
                  THEN pc = "connect"
                  ELSE /\ pc = "launch_redshift_cluster"
                       /\ ip > 1
                       /\ ProvisionCalls[ip - 1] = calls[i].call
       ELSE i = Len(calls) /\ pc = "aborted" /\ fatal = "provisioning error"
  /\ fatal = "provisioning error" =>
       /\ calls # << >>
       /\ Len(calls) \in Failed
       /\ calls[Len(calls)].call \in
            { "attach_role_policy", "get_role", "describe_clusters" }
  /\ pc = "connect" =>
       /\ cluster = "available"
       /\ aws.role /\ aws.policy
       /\ calls[Len(calls)].call = "authorize_ingress"

\* provisioning returned although the role, the cluster and the ingress rule
\* all existed already
C12_Witness ==
  /\ pc = "connect"
  /\ \A c \in { "create_role", "create_cluster", "authorize_ingress" } :
       \E i \in Failed : calls[i].call = c

=============================================================================
